---- MODULE Spec2Model ----
(***************************************************************************)
(* Model of custom_components/pi_assistant/voice_assistant.py:             *)
(* VoiceAssistantPipeline.run_pipeline and its event callback.             *)
(*                                                                         *)
(* One run of one VoiceAssistantPipeline instance.  The staged pipeline    *)
(* (async_pipeline_from_audio_stream) is the environment: while its call   *)
(* is pending it delivers stage events to _event_callback in stage order,  *)
(* and the call ends by returning or by raising.  What the caller of the   *)
(* orchestrator observes (handle_event, handle_finished) and what the      *)
(* media player entity is asked to do (play_media) is logged in `trace`.   *)
(*                                                                         *)
(* Also, each under a specification of its own: the media player entity    *)
(* of media_player.py (DeviceSpec: state refresh and commands; IdSpec: the *)
(* derivation of its ids) and two orchestrator instances running side by   *)
(* side (PairSpec).                                                        *)
(***************************************************************************)
EXTENDS Integers, Sequences, FiniteSets, TLC

VARIABLES
    pc,           \* position of run_pipeline: idle, pipeline, wait, done
    start_stage,  \* the start_stage argument of run_pipeline
    pos,          \* staged pipeline: index into StageOrder of its next event
    nErrors,      \* staged pipeline: ERROR stage events delivered so far
    events,       \* stage events delivered to _event_callback, in order
    cbexc,        \* exception raised inside _event_callback, propagating
    exc,          \* exception the staged pipeline call ended with
    tts_done,     \* self._tts_done (asyncio.Event): is it set
    outcome,      \* how run_pipeline ended: none, returned, raised
    trace,        \* handle_event / handle_finished / play_media calls
    started,      \* VoiceAssistantPipeline.started
    stop_requested,  \* VoiceAssistantPipeline.stop_requested
    dev,          \* PiAssistantMediaPlayer: state and _attr_* attributes
    req,          \* PiAssistantMediaPlayer: the last command request posted
    last,         \* PiAssistantMediaPlayer: the last method call, its outcome
    ncalls,       \* PiAssistantMediaPlayer: method calls made so far
    hostname,     \* PiAssistantMediaPlayer.hostname, a sequence of characters
    unique_id,    \* PiAssistantMediaPlayer._attr_unique_id
    devid,        \* the value device_id() returned last
    runs,         \* two orchestrator instances: the state of each one's run
    tts           \* two orchestrator instances: each one's _tts_done

\* the state of one run of the orchestrator
pvars == <<pc, start_stage, pos, nErrors, events, cbexc, exc, tts_done,
           outcome, trace, started, stop_requested>>

\* the state of the media player entity
dvars == <<dev, req, last, ncalls>>

\* the identity of the media player entity
ivars == <<hostname, unique_id, devid>>

\* two orchestrator instances running side by side
tvars == <<runs, tts>>

\* the variables of the other components, which a run of the orchestrator
\* leaves alone
others == <<dvars, ivars, tvars>>

vars == <<pc, start_stage, pos, nErrors, events, cbexc, exc, tts_done,
          outcome, trace, started, stop_requested, others>>

----------------------------------------------------------------------------
(* Bounds and input sets *)

\* ERROR stage events the staged pipeline may deliver in one run
MaxErrorEvents == 1

StartStages == {"WAKE_WORD", "STT", "INTENT", "TTS"}

Texts == {"turn on the light"}

Urls == {"/api/tts_proxy/a.mp3"}

\* Python None, where a value of a stage event's data may be None
NoneVal == "<None>"

ConversationIds == {NoneVal, "conv-1"}

\* code/message pairs of an upstream ERROR stage event
UpstreamErrors ==
    { <<"stt-no-text-recognized", "No text recognized">>,
      <<"wake-word-timeout", "Wake word was not detected">> }

\* code/message pairs carried by a WakeWordDetectionError
EngineErrors ==
    { <<"wake-provider-missing", "No wake word provider">>,
      <<"wake-stream-failed", "Wake stream failed">> }

----------------------------------------------------------------------------
(* The staged pipeline's event vocabulary (PipelineEventType) *)

StageOrder ==
    << "RUN_START", "WAKE_WORD_START", "WAKE_WORD_END", "STT_START",
       "STT_END", "INTENT_START", "INTENT_END", "TTS_START", "TTS_END",
       "RUN_END" >>

RunEndPos == Len(StageOrder)

\* a stage event: its type and the one or two values of its data the
\* callback reads ("" where it reads none, or where the value is empty)
StageEvent(t, a, b) == [type |-> t, arg |-> a, arg2 |-> b]

\* the values the data of a stage event of type t may carry
StageEventsOf(t) ==
    CASE t = "WAKE_WORD_END" ->
            { StageEvent(t, w, "") : w \in {"", "ok_nabu"} }
      [] t = "STT_END" -> { StageEvent(t, x, "") : x \in Texts }
      [] t = "INTENT_END" -> { StageEvent(t, c, "") : c \in ConversationIds }
      [] t = "TTS_START" -> { StageEvent(t, x, "") : x \in Texts }
      [] t = "TTS_END" -> { StageEvent(t, u, "") : u \in Urls \cup {""} }
      [] t = "ERROR" -> { StageEvent(t, e[1], e[2]) : e \in UpstreamErrors }
      [] OTHER -> { StageEvent(t, "", "") }

\* index in StageOrder of the first event of a start stage
FirstPos(stage) ==
    CASE stage = "WAKE_WORD" -> 2
      [] stage = "STT" -> 4
      [] stage = "INTENT" -> 6
      [] stage = "TTS" -> 8

----------------------------------------------------------------------------
(* What the caller and the entity observe *)

\* handle_event(kind, data): data is None (none) or a dict, given as the
\* sequence of its <<key, value>> items
EventEntry(kind, none, data) ==
    [op |-> "event", kind |-> kind, none |-> none, data |-> data]

FinishedEntry ==
    [op |-> "finished", kind |-> "", none |-> TRUE, data |-> << >>]

\* self.entity.play_media(MediaType.URL, path)
PlayEntry(url) ==
    [op |-> "play", kind |-> "url", none |-> FALSE,
     data |-> << <<"media_id", url>> >>]

NoExc == [cls |-> "none", code |-> "", message |-> ""]

Exc(cls, code, message) == [cls |-> cls, code |-> code, message |-> message]

----------------------------------------------------------------------------
(* media_player.py: PiAssistantMediaPlayer *)

\* method calls on the entity in one behaviour
MaxCalls == 2

\* the attributes update_states assigns, by the key of the state response
\* they are read from, in the order of the assignments
FieldOrder ==
    << "state", "is_volume_muted", "media_duration", "media_content_type",
       "media_position", "media_position_updated_at", "repeat", "shuffle",
       "source", "volume_level", "volume_step" >>

Fields == { FieldOrder[i] : i \in 1..Len(FieldOrder) }

\* two complete state responses of the device
SnapshotA ==
    [state |-> "playing", is_volume_muted |-> "False",
     media_duration |-> "180", media_content_type |-> "music",
     media_position |-> "10", media_position_updated_at |-> "t1",
     repeat |-> "off", shuffle |-> "False", source |-> "radio",
     volume_level |-> "0.5", volume_step |-> "0.1"]

SnapshotB ==
    [state |-> "paused", is_volume_muted |-> "True",
     media_duration |-> "240", media_content_type |-> "podcast",
     media_position |-> "95", media_position_updated_at |-> "t2",
     repeat |-> "all", shuffle |-> "True", source |-> "usb",
     volume_level |-> "0.8", volume_step |-> "0.05"]

Snapshots == {SnapshotA, SnapshotB}

\* the key a state response may lack (NoneVal: it is complete)
MissingFields == {NoneVal, "state", "media_position", "volume_step"}

\* how a request to the device ends: with a response, with the builtin
\* TimeoutError the except clauses name, or with one of the exceptions of
\* the requests library (a read timeout, a connection failure), which are
\* not subclasses of TimeoutError
TransportOutcomes == {"ok", "TimeoutError", "ReadTimeout", "ConnectionError"}

\* volume arguments, in tenths: -0.1, 0, 0.5, 1, 1.1
Volumes == {-1, 0, 5, 10, 11}

MediaIds == {"media-source://tts/a", "/api/tts_proxy/a.mp3"}

\* media_source.is_media_source_id
IsMediaSourceId(id) == id = "media-source://tts/a"

\* media_source.async_resolve_media(...).url
ResolveMedia(id) == "/api/tts_proxy/a.mp3"

\* async_process_play_media_url: a path becomes an absolute url
ProcessPlayMediaUrl(u) ==
    IF u = "/api/tts_proxy/a.mp3"
    THEN "http://hass.local:8123/api/tts_proxy/a.mp3"
    ELSE u

\* a command request: the command of the url, and the args of the body
Request(command, url, volume) ==
    [command |-> command, url |-> url, volume |-> volume]

NoRequest == Request("", "", 0)

\* a finished method call: the method, how its request ended, the key the
\* response lacked, the value returned and the exception raised
Call(op, out, missing, ret, raised) ==
    [op |-> op, out |-> out, missing |-> missing, ret |-> ret,
     raised |-> raised]

NoCall == Call("", "ok", NoneVal, "None", "none")

\* index of a key in FieldOrder, Len(FieldOrder) + 1 for none
FieldIndex(f) ==
    IF f \in Fields
    THEN CHOOSE i \in 1..Len(FieldOrder) : FieldOrder[i] = f
    ELSE Len(FieldOrder) + 1

\* the assignments of update_states, in order, up to the first key the
\* response lacks, where the subscript raises KeyError
AssignFields(d, snap, missing) ==
    [f \in Fields |->
        IF FieldIndex(f) < FieldIndex(missing) THEN snap[f] ELSE d[f]]

\* UpdateStatesDev treating every failed request as a timeout
UpdateStatesDev_AnyFailure(d, out, snap, missing) ==
    IF out = "ok" THEN AssignFields(d, snap, missing)
    ELSE [d EXCEPT !["state"] = "unavailable"]

\* update_states: the attributes after the call
UpdateStatesDev(d, out, snap, missing) ==
    IF out = "ok" THEN AssignFields(d, snap, missing)
    ELSE IF out = "TimeoutError" THEN [d EXCEPT !["state"] = "unavailable"]
    ELSE d

\* update_states: the exception that leaves the call
UpdateStatesRaised(out, missing) ==
    IF out = "ok" THEN (IF missing = NoneVal THEN "none" ELSE "KeyError")
    ELSE IF out = "TimeoutError" THEN "none"
    ELSE out

\* SendCommandDev without the assignment of "unavailable"
SendCommandDev_NoMark(d, out) == d

\* send_command: the attributes after the call
SendCommandDev(d, out) ==
    IF out = "TimeoutError" THEN [d EXCEPT !["state"] = "unavailable"] ELSE d

\* send_command: the value returned, result["success"] or False
SendCommandRet(out, success) ==
    IF out = "ok" THEN (IF success THEN "True" ELSE "False") ELSE "False"

\* send_command: the exception that leaves the call
SendCommandRaised(out) ==
    IF out \in {"ok", "TimeoutError"} THEN "none" ELSE out

\* the entity after __init__: no attribute has been assigned yet
DeviceInit ==
    /\ dev = [f \in Fields |-> NoneVal]
    /\ req = NoRequest
    /\ last = NoCall
    /\ ncalls = 0

\* update_states()
update_states(out, snap, missing) ==
    /\ ncalls < MaxCalls
    /\ ncalls' = ncalls + 1
    /\ dev' = UpdateStatesDev(dev, out, snap, missing)
    /\ last' = Call("update_states", out, missing, "None",
                    UpdateStatesRaised(out, missing))
    /\ UNCHANGED <<req, pvars, ivars, tvars>>

\* async_update(): update_states in the executor; any Exception is logged
async_update(out, snap, missing) ==
    /\ ncalls < MaxCalls
    /\ ncalls' = ncalls + 1
    /\ dev' = UpdateStatesDev(dev, out, snap, missing)
    /\ last' = Call("async_update", out, missing, "None", "none")
    /\ UNCHANGED <<req, pvars, ivars, tvars>>

\* the effect of a method that posts r through send_command and ends as
\* the Call c
Dispatch(r, out, c) ==
    /\ ncalls' = ncalls + 1
    /\ req' = r
    /\ dev' = SendCommandDev(dev, out)
    /\ last' = c
    /\ UNCHANGED <<pvars, ivars, tvars>>

\* send_command(command, args)
send_command(r, out, success) ==
    /\ ncalls < MaxCalls
    /\ Dispatch(r, out, Call("send_command", out, NoneVal,
                          SendCommandRet(out, success), SendCommandRaised(out)))

\* async_send_command(command, args): send_command in the executor; any
\* Exception is logged and None is returned
async_send_command(r, out, success) ==
    /\ ncalls < MaxCalls
    /\ Dispatch(r, out, Call("async_send_command", out, NoneVal,
                          IF SendCommandRaised(out) = "none"
                          THEN SendCommandRet(out, success) ELSE "None",
                          "none"))

\* async_play_media(media_type, media_id)
async_play_media(media_id, out, success) ==
    /\ ncalls < MaxCalls
    /\ Dispatch(Request("play_media",
                     ProcessPlayMediaUrl(IF IsMediaSourceId(media_id)
                                         THEN ResolveMedia(media_id)
                                         ELSE media_id), 0),
             out, Call("async_play_media", out, NoneVal, "None", "none"))

\* set_volume_level(volume)
set_volume_level(volume, out, success) ==
    /\ ncalls < MaxCalls
    /\ Dispatch(Request("set_volume", "", volume), out,
             Call("set_volume_level", out, NoneVal, "None",
                  SendCommandRaised(out)))

\* media_pause()
media_pause(out, success) ==
    /\ ncalls < MaxCalls
    /\ Dispatch(Request("media_pause", "", 0), out,
             Call("media_pause", out, NoneVal, "None", SendCommandRaised(out)))

\* media_play()
media_play(out, success) ==
    /\ ncalls < MaxCalls
    /\ Dispatch(Request("media_play", "", 0), out,
             Call("media_play", out, NoneVal, "None", SendCommandRaised(out)))

\* media_stop()
media_stop(out, success) ==
    /\ ncalls < MaxCalls
    /\ Dispatch(Request("media_stop", "", 0), out,
             Call("media_stop", out, NoneVal, "None", SendCommandRaised(out)))

\* mute_volume(mute): the argument is not sent
mute_volume(mute, out, success) ==
    /\ ncalls < MaxCalls
    /\ Dispatch(Request("volume_mute", "", 0), out,
             Call("mute_volume", out, NoneVal, "None", SendCommandRaised(out)))

\* the requests the control methods can post
Requests ==
    { Request("set_volume", "", v) : v \in Volumes }
    \cup { Request(c, "", 0) :
               c \in {"media_pause", "media_play", "media_stop", "volume_mute"} }
    \cup { Request("play_media", ProcessPlayMediaUrl("/api/tts_proxy/a.mp3"), 0) }

----------------------------------------------------------------------------
(* media_player.py: the identity of the entity *)

\* longest hostname tried, besides the example of the spec
MaxHostLen == 3

UpperCase ==
    << "A", "B", "C", "D", "E", "F", "G", "H", "I", "J", "K", "L", "M",
       "N", "O", "P", "Q", "R", "S", "T", "U", "V", "W", "X", "Y", "Z" >>

LowerCase ==
    << "a", "b", "c", "d", "e", "f", "g", "h", "i", "j", "k", "l", "m",
       "n", "o", "p", "q", "r", "s", "t", "u", "v", "w", "x", "y", "z" >>

Digits == {"0", "1", "2", "3", "4", "5", "6", "7", "8", "9"}

\* the characters of the hostnames tried
HostChars == {"a", "B", "1", " ", "!", "_"}

ExampleHost ==
    << "L", "i", "v", "i", "n", "g", " ", "R", "o", "o", "m", "!", "!",
       "P", "i" >>

BoundedSeq(S, n) == UNION { [1..k -> S] : k \in 0..n }

Hostnames == BoundedSeq(HostChars, MaxHostLen) \cup {ExampleHost}

\* f" Media Player"
MediaPlayerSuffix ==
    << " ", "M", "e", "d", "i", "a", " ", "P", "l", "a", "y", "e", "r" >>

\* no value yet
NoId == << NoneVal >>

\* the class [a-zA-Z0-9]
IsAlnum(c) ==
    \/ \E i \in 1..Len(UpperCase) : UpperCase[i] = c
    \/ \E i \in 1..Len(LowerCase) : LowerCase[i] = c
    \/ c \in Digits

\* str.lower() on one character
LowerChar(c) ==
    IF \E i \in 1..Len(UpperCase) : UpperCase[i] = c
    THEN LowerCase[CHOOSE i \in 1..Len(UpperCase) : UpperCase[i] = c]
    ELSE c

\* str.lower()
Lower(s) == [i \in 1..Len(s) |-> LowerChar(s[i])]

\* s without its leading characters outside [a-zA-Z0-9]
RECURSIVE SkipRun(_)
SkipRun(s) ==
    IF s = << >> \/ IsAlnum(Head(s)) THEN s ELSE SkipRun(Tail(s))

\* re.sub(r"[^a-zA-Z0-9]+", "_", s): every maximal run of characters
\* outside the class becomes one "_"
RECURSIVE ReSub(_)
ReSub(s) ==
    IF s = << >> THEN << >>
    ELSE IF IsAlnum(Head(s)) THEN << Head(s) >> \o ReSub(Tail(s))
    ELSE << "_" >> \o ReSub(SkipRun(Tail(s)))

\* re.sub without the +: every character outside the class becomes "_"
ReSubEach(s) == [i \in 1..Len(s) |-> IF IsAlnum(s[i]) THEN s[i] ELSE "_"]

\* generate_entity_id replacing character by character
generate_entity_id_NoCollapse(line) == Lower(ReSubEach(line))

\* generate_entity_id(line)
generate_entity_id(line) == Lower(ReSub(line))

IdInit ==
    /\ hostname = << >>
    /\ unique_id = NoId
    /\ devid = NoId

\* __init__(hostname)
PiAssistantMediaPlayer_init(h) ==
    /\ unique_id = NoId
    /\ hostname' = h
    /\ unique_id' = generate_entity_id(h \o MediaPlayerSuffix)
    /\ UNCHANGED <<devid, pvars, dvars, tvars>>

\* device_id()
device_id ==
    /\ unique_id # NoId
    /\ devid = NoId
    /\ devid' = generate_entity_id(hostname)
    /\ UNCHANGED <<hostname, unique_id, pvars, dvars, tvars>>

----------------------------------------------------------------------------
(* _event_callback *)

\* the property is_running: started and not asked to stop
is_running == started /\ ~stop_requested

\* `x or ""` for a value that may be None
OrEmpty(x) == IF x = NoneVal THEN "" ELSE x

\* The branch _event_callback takes for a stage event, up to the call of
\* handle_event:
\*   raises  the branch raises before handle_event is reached
\*   kind    event_type as passed to handle_event
\*   none    data_to_send is None
\*   data    data_to_send, when it is a dict
\*   error   the local flag `error`
\*   play    self.entity.play_media is called with url
\*   done    self._tts_done.set() is called in the branch
\* TtsEndBranch without the call of play_media
TtsEndBranch_NoPlay(r, ev) ==
    IF ev.arg # ""
    THEN r
    ELSE [r EXCEPT !.none = FALSE, !.done = TRUE]

\* TtsEndBranch without self._tts_done.set() on an empty response
TtsEndBranch_NoDone(r, ev) ==
    IF ev.arg # ""
    THEN [r EXCEPT !.play = TRUE, !.url = ev.arg]
    ELSE [r EXCEPT !.none = FALSE]

\* the TTS_END branch: play the synthesized audio when there is output,
\* otherwise send an empty dict and set self._tts_done
TtsEndBranch(r, ev) ==
    IF ev.arg # ""
    THEN [r EXCEPT !.play = TRUE, !.url = ev.arg]
    ELSE [r EXCEPT !.none = FALSE, !.done = TRUE]

\* InitialLocals with data_to_send starting as an empty dict
InitialLocals_EmptyDict(ev) ==
    [raises |-> FALSE, kind |-> ev.type, none |-> FALSE, data |-> << >>,
     error |-> FALSE, play |-> FALSE, url |-> "", done |-> FALSE]

\* the locals at the head of _event_callback: event_type = event.type,
\* data_to_send = None, error = False
InitialLocals(ev) ==
    [raises |-> FALSE, kind |-> ev.type, none |-> TRUE, data |-> << >>,
     error |-> FALSE, play |-> FALSE, url |-> "", done |-> FALSE]

Translate(ev) ==
    LET r == InitialLocals(ev)
    IN CASE ev.type = "STT_START" ->
               \* self.is_running = True: is_running is a property without
               \* a setter, the assignment raises AttributeError
               [r EXCEPT !.raises = TRUE]
         [] ev.type = "STT_END" ->
               [r EXCEPT !.none = FALSE, !.data = << <<"text", ev.arg>> >>]
         [] ev.type = "INTENT_END" ->
               [r EXCEPT !.none = FALSE,
                         !.data = << <<"conversation_id", OrEmpty(ev.arg)>> >>]
         [] ev.type = "TTS_START" ->
               [r EXCEPT !.none = FALSE, !.data = << <<"text", ev.arg>> >>]
         [] ev.type = "TTS_END" -> TtsEndBranch(r, ev)
         [] ev.type = "WAKE_WORD_END" ->
               IF ev.arg = ""
               THEN [r EXCEPT !.kind = "ERROR", !.none = FALSE,
                              !.data = << <<"code", "no_wake_word">>,
                                          <<"message", "No wake word detected">> >>,
                              !.error = TRUE]
               ELSE r
         [] ev.type = "ERROR" ->
               [r EXCEPT !.none = FALSE,
                         !.data = << <<"code", ev.arg>>,
                                     <<"message", ev.arg2>> >>,
                         !.error = TRUE]
         [] OTHER -> r

\* the exception that leaves _event_callback, NoExc when it returns.
\* playFails: the call of play_media raised.  PiAssistantMediaPlayer defines
\* async_play_media only; play_media is the inherited method, whose outcome
\* is not decided by this repository.
CallbackExc(ev, playFails) ==
    LET r == Translate(ev)
    IN IF r.raises THEN Exc("AttributeError", "", "")
       ELSE IF r.play /\ playFails THEN Exc("NotImplementedError", "", "")
       ELSE NoExc

\* the calls _event_callback makes for a stage event, in order
CallbackEntries(ev, playFails) ==
    LET r == Translate(ev)
    IN IF r.raises THEN << >>
       ELSE (IF r.play THEN << PlayEntry(r.url) >> ELSE << >>)
            \o (IF r.play /\ playFails THEN << >>
                ELSE << EventEntry(r.kind, r.none, r.data) >>
                     \o (IF r.error THEN << FinishedEntry >> ELSE << >>))

\* CallbackSetsDone without self._tts_done.set() on the error path
CallbackSetsDone_NoErrorSet(ev, playFails) ==
    LET r == Translate(ev)
    IN CallbackExc(ev, playFails) = NoExc /\ r.done

\* does _event_callback set self._tts_done for a stage event
CallbackSetsDone(ev, playFails) ==
    LET r == Translate(ev)
    IN CallbackExc(ev, playFails) = NoExc /\ (r.done \/ r.error)

----------------------------------------------------------------------------
(* The staged pipeline, as far as run_pipeline and the callback see it *)

\* may the staged pipeline deliver stage event ev now: the next event of
\* the stage order, or an ERROR event once the run has started.  After a
\* callback raised, only RUN_END (the pipeline's own cleanup) is delivered.
Deliverable(ev) ==
    IF ev.type = "ERROR"
    THEN /\ pos \in 2..RunEndPos
         /\ nErrors < MaxErrorEvents
         /\ cbexc = NoExc
         /\ ev \in StageEventsOf("ERROR")
    ELSE /\ pos \in 1..RunEndPos
         /\ ev \in StageEventsOf(StageOrder[pos])

\* the position of the staged pipeline after it delivered ev: a failed
\* stage (ERROR event, no wake word, a callback that raised) ends the run
NextPos(ev, raised) ==
    IF ev.type = "RUN_END" THEN RunEndPos + 1
    ELSE IF raised \/ ev.type = "ERROR"
            \/ (ev.type = "WAKE_WORD_END" /\ ev.arg = "")
    THEN RunEndPos
    ELSE IF ev.type = "RUN_START" THEN FirstPos(start_stage)
    ELSE pos + 1

\* the exceptions the staged pipeline call may end with
PipelineExceptions ==
    { Exc("PipelineNotFound", "", ""),
      Exc("WakeWordDetectionAborted", "", ""),
      Exc("CancelledError", "", "") }
    \cup { Exc("WakeWordDetectionError", e[1], e[2]) : e \in EngineErrors }

\* may the staged pipeline call raise e now.  An exception raised in the
\* callback propagates through the call.  Otherwise: pipeline-not-found is
\* reported before the run starts, the wake-word exceptions until the
\* wake-word stage has ended, anything else (a cancellation) at any point.
Raisable(e) ==
    IF cbexc # NoExc THEN e = cbexc
    ELSE /\ e \in PipelineExceptions
         /\ e.cls = "PipelineNotFound" => pos = 1
         /\ e.cls \in {"WakeWordDetectionAborted", "WakeWordDetectionError"}
               => (start_stage = "WAKE_WORD" /\ pos <= 3)

----------------------------------------------------------------------------
(* run_pipeline *)

\* PipelineNotFoundClause without the call of handle_event
PipelineNotFoundClause_Silent == << >>

\* except PipelineNotFound: the calls the clause makes
PipelineNotFoundClause ==
    << EventEntry("ERROR", FALSE,
                  << <<"code", "pipeline not found">>,
                     <<"message", "Selected pipeline not found">> >>) >>

\* WakeWordDetectionAbortedClause reporting the abort as an error
WakeWordDetectionAbortedClause_Reports(e) ==
    << EventEntry("ERROR", FALSE,
                  << <<"code", e.code>>, <<"message", e.message>> >>) >>

\* except WakeWordDetectionAborted: pass
WakeWordDetectionAbortedClause(e) == << >>

\* except WakeWordDetectionError as e: the calls the clause makes
WakeWordDetectionErrorClause(e) ==
    << EventEntry("ERROR", FALSE,
                  << <<"code", e.code>>, <<"message", e.message>> >>) >>

\* the calls the except clause matching e makes
ExceptEntries(e) ==
    CASE e.cls = "PipelineNotFound" -> PipelineNotFoundClause
      [] e.cls = "WakeWordDetectionAborted" -> WakeWordDetectionAbortedClause(e)
      [] e.cls = "WakeWordDetectionError" -> WakeWordDetectionErrorClause(e)
      [] OTHER -> << >>

\* is e caught by one of the except clauses
Caught(e) ==
    e.cls \in {"PipelineNotFound", "WakeWordDetectionAborted",
               "WakeWordDetectionError"}

----------------------------------------------------------------------------
(* Two VoiceAssistantPipeline instances, each with a run of its own *)

Instances == {1, 2}

\* _tts_done as an attribute of the class, shared by the instances
TtsDoneOf_ClassLevel(i) == 1

\* the asyncio.Event instance i sets and waits for: __init__ creates one
\* per instance
TtsDoneOf(i) == i

\* the state of an instance's run: the variables of a single run
NewRun ==
    [pc |-> "idle", start_stage |-> "STT", pos |-> 1, nErrors |-> 0,
     cbexc |-> NoExc, exc |-> NoExc, trace |-> << >>]

\* Deliverable, for the run r
RunDeliverable(r, ev) ==
    IF ev.type = "ERROR"
    THEN /\ r.pos \in 2..RunEndPos
         /\ r.nErrors < MaxErrorEvents
         /\ r.cbexc = NoExc
         /\ ev \in StageEventsOf("ERROR")
    ELSE /\ r.pos \in 1..RunEndPos
         /\ ev \in StageEventsOf(StageOrder[r.pos])

\* NextPos, for the run r
RunNextPos(r, ev, raised) ==
    IF ev.type = "RUN_END" THEN RunEndPos + 1
    ELSE IF raised \/ ev.type = "ERROR"
            \/ (ev.type = "WAKE_WORD_END" /\ ev.arg = "")
    THEN RunEndPos
    ELSE IF ev.type = "RUN_START" THEN FirstPos(r.start_stage)
    ELSE r.pos + 1

\* Raisable, for the run r
RunRaisable(r, e) ==
    IF r.cbexc # NoExc THEN e = r.cbexc
    ELSE /\ e \in PipelineExceptions
         /\ e.cls = "PipelineNotFound" => r.pos = 1
         /\ e.cls \in {"WakeWordDetectionAborted", "WakeWordDetectionError"}
               => (r.start_stage = "WAKE_WORD" /\ r.pos <= 3)

PairInit ==
    /\ runs = [i \in Instances |-> NewRun]
    /\ tts = [i \in Instances |-> FALSE]

\* instance i: run_pipeline up to the await of the staged pipeline call
pair_run_pipeline(i, stage) ==
    /\ runs[i].pc = "idle"
    /\ runs' = [runs EXCEPT ![i].pc = "pipeline", ![i].start_stage = stage]
    /\ UNCHANGED <<tts, pvars, dvars, ivars>>

\* instance i: its staged pipeline calls its _event_callback(ev)
pair_event_callback(i, ev, playFails) ==
    /\ runs[i].pc = "pipeline"
    /\ RunDeliverable(runs[i], ev)
    /\ runs' = [runs EXCEPT
                   ![i].trace = @ \o CallbackEntries(ev, playFails),
                   ![i].cbexc = IF CallbackExc(ev, playFails) # NoExc
                                THEN CallbackExc(ev, playFails) ELSE @,
                   ![i].pos = RunNextPos(runs[i], ev,
                                         CallbackExc(ev, playFails) # NoExc),
                   ![i].nErrors = IF ev.type = "ERROR" THEN @ + 1 ELSE @]
    /\ tts' = [tts EXCEPT ![TtsDoneOf(i)] =
                                @ \/ CallbackSetsDone(ev, playFails)]
    /\ UNCHANGED <<pvars, dvars, ivars>>

\* instance i: its staged pipeline call returns; the wait and the finally
\* clause as in pipeline_returns
pair_pipeline_returns(i) ==
    /\ runs[i].pc = "pipeline"
    /\ runs[i].cbexc = NoExc
    /\ runs[i].pos = RunEndPos + 1
    /\ runs' = [runs EXCEPT
                   ![i].pc = IF tts[TtsDoneOf(i)] THEN "done" ELSE "wait",
                   ![i].trace = IF tts[TtsDoneOf(i)]
                                THEN Append(@, FinishedEntry) ELSE @]
    /\ UNCHANGED <<tts, pvars, dvars, ivars>>

\* instance i: its staged pipeline call raises e
pair_pipeline_raises(i, e) ==
    /\ runs[i].pc = "pipeline"
    /\ RunRaisable(runs[i], e)
    /\ runs' = [runs EXCEPT
                   ![i].pc = "done",
                   ![i].exc = e,
                   ![i].trace = (@ \o ExceptEntries(e)) \o << FinishedEntry >>]
    /\ UNCHANGED <<tts, pvars, dvars, ivars>>

\* the instance after __init__, run_pipeline not yet called; start_stage
\* holds the parameter's default until the call supplies it
Init ==
    /\ pc = "idle"
    /\ start_stage = "STT"
    /\ pos = 1
    /\ nErrors = 0
    /\ events = << >>
    /\ cbexc = NoExc
    /\ exc = NoExc
    /\ tts_done = FALSE
    /\ outcome = "none"
    /\ trace = << >>
    /\ started = FALSE
    /\ stop_requested = FALSE
    /\ DeviceInit
    /\ IdInit
    /\ PairInit

\* run_pipeline(device_id, start_stage, ...) up to the await of the staged
\* pipeline call
run_pipeline(stage) ==
    /\ pc = "idle"
    /\ pc' = "pipeline"
    /\ start_stage' = stage
    /\ UNCHANGED <<pos, nErrors, events, cbexc, exc, tts_done, outcome, trace>>
    /\ UNCHANGED <<started, stop_requested, others>>

\* the staged pipeline calls self._event_callback(ev)
event_callback(ev, playFails) ==
    /\ pc = "pipeline"
    /\ Deliverable(ev)
    /\ events' = Append(events, ev)
    /\ trace' = trace \o CallbackEntries(ev, playFails)
    /\ tts_done' = (tts_done \/ CallbackSetsDone(ev, playFails))
    /\ cbexc' = IF CallbackExc(ev, playFails) # NoExc
                THEN CallbackExc(ev, playFails) ELSE cbexc
    /\ pos' = NextPos(ev, CallbackExc(ev, playFails) # NoExc)
    /\ nErrors' = IF ev.type = "ERROR" THEN nErrors + 1 ELSE nErrors
    /\ UNCHANGED <<pc, start_stage, exc, outcome>>
    /\ UNCHANGED <<started, stop_requested, others>>

\* the staged pipeline call returns: run_pipeline goes on to
\* `await self._tts_done.wait()`, which returns at once when the event is
\* set, and then to the finally clause.  When the event is not set the run
\* is suspended in the wait; only _event_callback sets the event, and the
\* staged pipeline calls it only while its own call is pending.
pipeline_returns ==
    /\ pc = "pipeline"
    /\ cbexc = NoExc
    /\ pos = RunEndPos + 1
    /\ pc' = IF tts_done THEN "done" ELSE "wait"
    /\ trace' = IF tts_done THEN Append(trace, FinishedEntry) ELSE trace
    /\ outcome' = IF tts_done THEN "returned" ELSE outcome
    /\ UNCHANGED <<start_stage, pos, nErrors, events, cbexc, exc, tts_done>>
    /\ UNCHANGED <<started, stop_requested, others>>

\* the staged pipeline call raises e: the matching except clause, then the
\* finally clause; an exception no clause matches leaves run_pipeline
pipeline_raises(e) ==
    /\ pc = "pipeline"
    /\ Raisable(e)
    /\ exc' = e
    /\ trace' = (trace \o ExceptEntries(e)) \o << FinishedEntry >>
    /\ pc' = "done"
    /\ outcome' = IF Caught(e) THEN "returned" ELSE "raised"
    /\ UNCHANGED <<start_stage, pos, nErrors, events, cbexc, tts_done>>
    /\ UNCHANGED <<started, stop_requested, others>>

Next ==
    \/ \E stage \in StartStages : run_pipeline(stage)
    \/ \E ev \in UNION { StageEventsOf(t) : t \in
                            {StageOrder[i] : i \in 1..Len(StageOrder)}
                            \cup {"ERROR"} },
          playFails \in BOOLEAN : event_callback(ev, playFails)
    \/ pipeline_returns
    \/ \E e \in PipelineExceptions
              \cup {Exc("AttributeError", "", ""),
                    Exc("NotImplementedError", "", "")} : pipeline_raises(e)

Spec == Init /\ [][Next]_vars

\* the calls on the media player entity
DeviceNext ==
    \/ \E out \in TransportOutcomes, snap \in Snapshots,
          missing \in MissingFields : update_states(out, snap, missing)
    \/ \E out \in TransportOutcomes, snap \in Snapshots,
          missing \in MissingFields : async_update(out, snap, missing)
    \/ \E r \in Requests, out \in TransportOutcomes, success \in BOOLEAN :
          send_command(r, out, success)
    \/ \E r \in Requests, out \in TransportOutcomes, success \in BOOLEAN :
          async_send_command(r, out, success)
    \/ \E id \in MediaIds, out \in TransportOutcomes, success \in BOOLEAN :
          async_play_media(id, out, success)
    \/ \E v \in Volumes, out \in TransportOutcomes, success \in BOOLEAN :
          set_volume_level(v, out, success)
    \/ \E out \in TransportOutcomes, success \in BOOLEAN :
          media_pause(out, success)
    \/ \E out \in TransportOutcomes, success \in BOOLEAN :
          media_play(out, success)
    \/ \E out \in TransportOutcomes, success \in BOOLEAN :
          media_stop(out, success)
    \/ \E m \in BOOLEAN, out \in TransportOutcomes, success \in BOOLEAN :
          mute_volume(m, out, success)

DeviceSpec == Init /\ [][DeviceNext]_vars

\* the stage events and the exceptions of a staged pipeline
AllStageEvents ==
    UNION { StageEventsOf(t) :
               t \in {StageOrder[i] : i \in 1..Len(StageOrder)} \cup {"ERROR"} }

AllExceptions ==
    PipelineExceptions \cup {Exc("AttributeError", "", ""),
                             Exc("NotImplementedError", "", "")}

\* two runs, on two instances, in any interleaving
PairNext ==
    \/ \E i \in Instances, stage \in StartStages : pair_run_pipeline(i, stage)
    \/ \E i \in Instances, ev \in AllStageEvents, playFails \in BOOLEAN :
          pair_event_callback(i, ev, playFails)
    \/ \E i \in Instances : pair_pipeline_returns(i)
    \/ \E i \in Instances, e \in AllExceptions : pair_pipeline_raises(i, e)

PairSpec == Init /\ [][PairNext]_vars

\* constructing the entity and asking for its device id
IdNext ==
    \/ \E h \in Hostnames : PiAssistantMediaPlayer_init(h)
    \/ device_id

IdSpec == Init /\ [][IdNext]_vars

\* the staged pipeline keeps delivering its events and its call ends; the
\* event loop runs whatever is ready
FairSpec == Spec /\ WF_vars(Next)

----------------------------------------------------------------------------
(* Properties *)

\* the positions of handle_finished calls in a trace
FinishedAt(t) == { i \in 1..Len(t) : t[i].op = "finished" }

FinishedCount(t) == Cardinality(FinishedAt(t))

\* the handle_event calls of a trace, in order
RECURSIVE EventsOf(_)
EventsOf(t) ==
    IF t = << >> THEN << >>
    ELSE (IF t[1].op = "event" THEN << t[1] >> ELSE << >>) \o EventsOf(Tail(t))

\* the handle_event calls of a trace with kind ERROR, in order
RECURSIVE ErrorEventsOf(_)
ErrorEventsOf(t) ==
    IF t = << >> THEN << >>
    ELSE (IF t[1].op = "event" /\ t[1].kind = "ERROR" THEN << t[1] >>
          ELSE << >>) \o ErrorEventsOf(Tail(t))

\* the kinds of a sequence of handle_event calls
KindsOf(t) == [i \in 1..Len(t) |-> t[i].kind]

WasDelivered(ev) == \E i \in 1..Len(events) : events[i] = ev

EmptyTtsEnd == StageEvent("TTS_END", "", "")

NoWakeWord == StageEvent("WAKE_WORD_END", "", "")

ErrorEntry(code, message) ==
    EventEntry("ERROR", FALSE, << <<"code", code>>, <<"message", message>> >>)

\* C1: in every run, whatever stage events are delivered, handle_finished
\* is invoked at most once.
C1_FinishedAtMostOnce == FinishedCount(trace) <= 1

\* C2: every run whose staged pipeline call is pending eventually invokes
\* handle_finished, given that the staged pipeline keeps delivering its
\* events and its call ends.
C2_EventuallyFinished == (pc = "pipeline") ~> (FinishedCount(trace) >= 1)

\* C3: when the staged pipeline call raised, whatever exception and whatever
\* stage events before it, handle_finished has been invoked exactly once when
\* run_pipeline ends.
C3_RaisedFinishedOnce ==
    (pc = "done" /\ exc # NoExc) => FinishedCount(trace) = 1

\* C4: for every delivered TTS_END stage event with output, play_media has
\* been called on the entity with the output's url, and no call of
\* handle_finished precedes that call.
C4_PlayBeforeFinished ==
    \A i \in 1..Len(events) :
        (events[i].type = "TTS_END" /\ events[i].arg # "") =>
            \E j \in 1..Len(trace) :
                /\ trace[j] = PlayEntry(events[i].arg)
                /\ \A k \in 1..j : trace[k].op # "finished"

\* a TTS_END with output was delivered, play_media was called and
\* handle_finished was invoked afterwards
C4_Witness ==
    /\ \E i \in 1..Len(events) :
           events[i].type = "TTS_END" /\ events[i].arg # ""
    /\ \E j, k \in 1..Len(trace) :
           j < k /\ trace[j].op = "play" /\ trace[k].op = "finished"

C6_NoEventAfterFinished ==
    \A i, j \in 1..Len(trace) :
        (i < j /\ trace[i].op = "finished") => trace[j].op # "event"

\* the staged pipeline itself reported no failure: no ERROR stage event, and
\* its call did not end with an exception of its own
NoPipelineFailure == nErrors = 0 /\ exc = cbexc

\* C7: when a run that starts at the wake-word stage, with a wake word
\* detected and no failure reported by the staged pipeline, has ended, the
\* kinds of its handle_event calls are exactly STT_END, INTENT_END, TTS_START
\* (the spec's STT_TEXT, INTENT_RESULT, TTS_TEXT), followed by the one call
\* of handle_finished.
C7_StagedRunEvents ==
    (/\ pc = "done"
     /\ start_stage = "WAKE_WORD"
     /\ WasDelivered(StageEvent("WAKE_WORD_END", "ok_nabu", ""))
     /\ NoPipelineFailure)
        => /\ KindsOf(EventsOf(trace)) = << "STT_END", "INTENT_END", "TTS_START" >>
           /\ FinishedAt(trace) = { Len(trace) }

\* C8: when a run whose wake-word stage reported no detection has ended, its
\* handle_event calls with kind ERROR are exactly one, with code
\* no_wake_word; handle_finished was invoked once, after it; and there was no
\* handle_event call of an STT, INTENT or TTS kind.
C8_NoWakeWordRun ==
    (pc = "done" /\ WasDelivered(NoWakeWord))
        => /\ ErrorEventsOf(trace)
                 = << ErrorEntry("no_wake_word", "No wake word detected") >>
           /\ FinishedCount(trace) = 1
           /\ \A i \in 1..Len(trace) :
                  /\ trace[i].op = "event" /\ trace[i].kind = "ERROR"
                         => \A k \in FinishedAt(trace) : i < k
                  /\ trace[i].op = "event"
                         => trace[i].kind \notin
                                {"STT_START", "STT_END", "INTENT_START",
                                 "INTENT_END", "TTS_START", "TTS_END"}

\* C9: when a run whose staged pipeline call raised PipelineNotFound before
\* any stage event has ended, the caller has seen exactly one handle_event
\* call, ERROR with code "pipeline not found", and then the one call of
\* handle_finished; the entity was not asked to play anything.
C9_PipelineNotFound ==
    (pc = "done" /\ exc.cls = "PipelineNotFound" /\ events = << >>)
        => trace = << ErrorEntry("pipeline not found",
                                 "Selected pipeline not found"),
                      FinishedEntry >>

\* a run ended by pipeline-not-found
C9_Witness ==
    pc = "done" /\ exc.cls = "PipelineNotFound" /\ events = << >>
        /\ outcome = "returned"

\* C10: a run ended by WakeWordDetectionAborted has no handle_event call of
\* kind ERROR; a run ended by WakeWordDetectionError has exactly one, with
\* the exception's code and message; in both the one call of handle_finished
\* is the last call of the run.
C10_AbortVersusError ==
    /\ (pc = "done" /\ exc.cls = "WakeWordDetectionAborted")
           => /\ ErrorEventsOf(trace) = << >>
              /\ FinishedAt(trace) = { Len(trace) }
    /\ (pc = "done" /\ exc.cls = "WakeWordDetectionError")
           => /\ ErrorEventsOf(trace) = << ErrorEntry(exc.code, exc.message) >>
              /\ FinishedAt(trace) = { Len(trace) }
              /\ trace[Len(trace) - 1] = ErrorEntry(exc.code, exc.message)

\* a run ended by a wake-word engine error while the wake-word stage ran
C10_Witness ==
    /\ pc = "done"
    /\ exc.cls = "WakeWordDetectionError"
    /\ exc.code = "wake-stream-failed"
    /\ WasDelivered(StageEvent("WAKE_WORD_START", "", ""))

\* the kinds handle_event is given together with a dict: the stage events
\* STT_END, INTENT_END, TTS_START and ERROR (the spec's STT_TEXT,
\* INTENT_RESULT, TTS_TEXT and ERROR)
PublicKinds == {"STT_END", "INTENT_END", "TTS_START", "ERROR"}

SttStart == StageEvent("STT_START", "", "")

\* C18: once an STT_START stage event has been handled, is_running reads
\* true, the handler did not raise, and no handle_event call with a dict
\* was made for it.
C18_SttStartSetsRunning ==
    WasDelivered(SttStart) =>
        /\ is_running
        /\ cbexc = NoExc
        /\ \A i \in 1..Len(trace) :
               (trace[i].op = "event" /\ trace[i].kind = "STT_START")
                   => trace[i].none

CommandOps ==
    {"send_command", "async_send_command", "async_play_media",
     "set_volume_level", "media_pause", "media_play", "media_stop",
     "mute_volume"}

RefreshOps == {"update_states", "async_update"}

\* a method call has just been made
Called == ncalls' = ncalls + 1

\* C12: the volume of the set_volume command that set_volume_level posts
\* lies in [0, 1] (0..10 in tenths).
C12_VolumeInRange ==
    last.op = "set_volume_level" => req.volume \in 0..10

\* C14: after update_states or async_update whose request did not end with
\* a response, the status is "unavailable" and the call raised nothing.
C14_FailedRefreshUnavailable ==
    (last.op \in RefreshOps /\ last.out # "ok")
        => (dev["state"] = "unavailable" /\ last.raised = "none")

\* C15: no command method raises; send_command returns False whenever its
\* request did not end with a response, and True only when it did.
C15_CommandsNeverThrow ==
    last.op \in CommandOps =>
        /\ last.raised = "none"
        /\ (last.op = "send_command" /\ last.out # "ok") => last.ret = "False"
        /\ last.ret = "True" => last.out = "ok"

C17_IncompleteRefreshFrame ==
    [][ (/\ Called
         /\ last'.op \in RefreshOps
         /\ (last'.out # "ok" \/ last'.missing # NoneVal))
            => \A f \in Fields \ {"state"} : dev'[f] = dev[f] ]_vars

ExampleId ==
    << "l", "i", "v", "i", "n", "g", "_", "r", "o", "o", "m", "_", "p", "i" >>

\* C13: the id derived from a hostname is a fixed point of the derivation
\* (so is the unique id), and the id derived from "Living Room!!Pi" is
\* "living_room_pi".
C13_DeriveIdIdempotent ==
    /\ devid # NoId =>
           /\ generate_entity_id(devid) = devid
           /\ hostname = ExampleHost => devid = ExampleId
    /\ unique_id # NoId => generate_entity_id(unique_id) = unique_id

\* the id of the spec's example has been derived
C13_Witness == hostname = ExampleHost /\ devid = ExampleId

\* C20: a step of one instance's run (a stage event, an error, its call
\* ending) leaves the other instance's run as it was, its position, its
\* handle_event and handle_finished calls, and leaves the other instance's
\* done signal as it was.
C20_NoInterference ==
    [][ \A i, j \in Instances :
            (i # j /\ runs'[i] # runs[i])
                => /\ runs'[j] = runs[j]
                   /\ tts'[TtsDoneOf(j)] = tts[TtsDoneOf(j)] ]_vars

\* instance 1 is suspended in its wait while instance 2 has handled an
\* error: its signal is set and its handle_finished was called
C20_Witness ==
    /\ runs[1].pc = "wait"
    /\ ~tts[TtsDoneOf(1)]
    /\ FinishedCount(runs[1].trace) = 0
    /\ tts[TtsDoneOf(2)]
    /\ FinishedCount(runs[2].trace) >= 1

====
